---- MODULE Spec2Model ----
(***************************************************************************)
(* A model of the radix trie of src/src/radix_tree.rs: the three-way Node  *)
(* (Empty, Normal, Compressed), Trie::new, Trie::insert with its explicit  *)
(* work stack and Trie::contains, driven by Strings decomposed into chars. *)
(***************************************************************************)
EXTENDS Integers, Sequences, FiniteSets, TLC

\* ------------------------------------------------------------------------
\* Bounds of the model
\* ------------------------------------------------------------------------

\* alphabet_size handed to Trie::new (the number of slots of a Normal node)
AlphabetSize == 2

\* longest String that is inserted or looked up
MaxLen == 3

\* number of insert calls on one trie
MaxInserts == 3

\* ------------------------------------------------------------------------
\* Parts and the index function of the tests (lib.rs:41)
\* ------------------------------------------------------------------------

\* 'a' as usize
CharA == 97

\* 'A' as usize, 'Z' as usize: the chars to_lowercase() maps to another char
UpperA == 65
UpperZ == 90

\* the chars the model draws Strings from: 'a' .. 'a' + AlphabetSize; the last
\* one has an index_fn output equal to alphabet_size (as 'z' has in lib.rs:42)
Parts == CharA .. (CharA + AlphabetSize)

\* every char index_fn is defined on in the model
Chars == Parts \cup {UpperA}

\* c.to_lowercase().next().unwrap()
to_lowercase(c) == IF c >= UpperA /\ c <= UpperZ THEN c + (CharA - UpperA) ELSE c

\* |c: &char| (c.to_lowercase().next().unwrap() as usize) - ('a' as usize)
index_fn(c) == to_lowercase(c) - CharA

\* the Strings of the model: every sequence of Parts of length 0 .. MaxLen
Strings == UNION {[1..n -> Parts] : n \in 0..MaxLen}

\* impl Decomposable<char, IntoIter<char>> for String: the chars in order
decompose(t) == [i \in 1..Len(t) |-> t[i]]

\* impl_decomposable_for_integer!(u16): the two bytes of to_be_bytes()
decompose_u16(v) == <<(v \div 256) % 256, v % 256>>

\* |c: &u8| (*c as usize), the index function of test_trie_simple_numeric
byte_index_fn(c) == c

\* ------------------------------------------------------------------------
\* enum Node<T>
\* ------------------------------------------------------------------------

Empty == [kind |-> "Empty"]

Normal(children) == [kind |-> "Normal", children |-> children]

Compressed(compressed, child) ==
    [kind |-> "Compressed", compressed |-> compressed, child |-> child]

new_empty == Empty

\* collects the iterator; the child is always a fresh Empty
new_compressed(it) == Compressed(it, Empty)

\* the loop `for (pos, node) in positions_and_nodes { children[pos] = node; }`
\* acc = [children, panic, slots]; an index >= children.len() panics
RECURSIVE new_normal_fill(_, _)
new_normal_fill(acc, positions_and_nodes) ==
    IF positions_and_nodes = <<>> \/ acc.panic THEN acc
    ELSE LET pos  == Head(positions_and_nodes)[1]
             node == Head(positions_and_nodes)[2]
         IN  IF pos >= Len(acc.children)
             THEN [acc EXCEPT !.panic = TRUE, !.slots = @ \cup {pos}]
             ELSE new_normal_fill(
                      [acc EXCEPT !.children[pos + 1] = node,
                                  !.slots = @ \cup {pos}],
                      Tail(positions_and_nodes))

\* Node::new_normal: alphabet_size Empty children, then the given ones
new_normal(positions_and_nodes, alphabet_size) ==
    LET filled == new_normal_fill(
                      [children |-> [i \in 1..alphabet_size |-> Empty],
                       panic |-> FALSE, slots |-> {}],
                      positions_and_nodes)
    IN  [node |-> Normal(filled.children), panic |-> filled.panic,
         slots |-> filled.slots]

\* ------------------------------------------------------------------------
\* Places in the tree: a `&mut Node` is the path from the root to the node;
\* -1 steps through the Box of a Compressed node, pos >= 0 into children[pos]
\* ------------------------------------------------------------------------

BoxChild == -1

RECURSIVE NodeAt(_, _)
NodeAt(node, path) ==
    IF path = <<>> THEN node
    ELSE IF Head(path) = BoxChild
         THEN NodeAt(node.child, Tail(path))
         ELSE NodeAt(node.children[Head(path) + 1], Tail(path))

RECURSIVE ReplaceAt(_, _, _)
ReplaceAt(node, path, new) ==
    IF path = <<>> THEN new
    ELSE IF Head(path) = BoxChild
         THEN [node EXCEPT !.child = ReplaceAt(node.child, Tail(path), new)]
         ELSE [node EXCEPT !.children[Head(path) + 1] =
                               ReplaceAt(node.children[Head(path) + 1],
                                         Tail(path), new)]

\* ------------------------------------------------------------------------
\* Trie::new
\* ------------------------------------------------------------------------

new(fn, alphabet_size) ==
    [root |-> new_empty, index_fn |-> fn, alphabet_size |-> alphabet_size]

\* ------------------------------------------------------------------------
\* Trie::insert.  The state of the `while let Some(..) = stack.pop()` loop is
\* st = [root, stack, panic, slots]: the tree, the work stack of
\* (place, iterator) pairs, how the call panicked ("none", "index" for an
\* index out of bounds, "explicit" for panic!()), and the set of positions
\* the call has used so far to address a slot of a Normal node.
\* A Drain of `compressed` is modelled by its remaining items, the Vec being
\* truncated at once: nothing reads the Vec while the Drain borrows it, and
\* every path (use, drop, unwinding) ends by dropping the Drain.
\* ------------------------------------------------------------------------

Res(root, stack, panic, slots) ==
    [root |-> root, stack |-> stack, panic |-> panic, slots |-> slots]

\* Node::Empty => collect the rest of the input into a new Compressed node
InsertEmptyArm(st, rest, path, it) ==
    LET compressed == it
    IN  IF compressed # <<>>
        THEN Res(ReplaceAt(st.root, path, Compressed(compressed, Empty)),
                 rest, "none", st.slots)
        ELSE Res(st.root, rest, "none", st.slots)

\* Node::Normal => push children[index_fn(part)] with the rest of the input
InsertNormalArm(self, st, rest, path, it) ==
    LET children == NodeAt(st.root, path).children
    IN  IF it # <<>>
        THEN LET part == Head(it)
                 pos  == self.index_fn[part]
             IN  IF pos >= Len(children)
                 THEN Res(st.root, <<>>, "index", st.slots \cup {pos})
                 ELSE Res(st.root,
                          Append(rest, [node |-> Append(path, pos),
                                        it |-> Tail(it)]),
                          "none", st.slots \cup {pos})
        ELSE Res(st.root, rest, "none", st.slots)

\* EndOfCompressed with the slot index wrapped into the Vec instead of
\* bounds-checked: children[pos % children.len()]
EndOfCompressed_Wrapping(self, st, rest, path, new_part, it) ==
    LET node       == NodeAt(st.root, path)
        compressed == node.compressed
        child      == node.child
    IN  CASE child.kind = "Empty" ->
               Res(ReplaceAt(st.root, path,
                             Compressed(Append(compressed, new_part) \o it,
                                        child)),
                   rest, "none", st.slots)
          [] child.kind = "Normal" ->
               LET pos == self.index_fn[new_part]
               IN  Res(st.root,
                       Append(rest,
                              [node |-> path \o
                                   <<BoxChild, pos % Len(child.children)>>,
                               it |-> it]),
                       "none", st.slots \cup {pos})
          [] child.kind = "Compressed" ->
               Res(st.root, <<>>, "explicit", st.slots)

\* EndOfCompressed without compressed.extend(it): only new_part is appended
EndOfCompressed_PushOnly(self, st, rest, path, new_part, it) ==
    LET node       == NodeAt(st.root, path)
        compressed == node.compressed
        child      == node.child
    IN  CASE child.kind = "Empty" ->
               Res(ReplaceAt(st.root, path,
                             Compressed(Append(compressed, new_part), child)),
                   rest, "none", st.slots)
          [] child.kind = "Normal" ->
               LET pos == self.index_fn[new_part]
               IN  IF pos >= Len(child.children)
                   THEN Res(st.root, <<>>, "index", st.slots \cup {pos})
                   ELSE Res(st.root,
                            Append(rest,
                                   [node |-> path \o <<BoxChild, pos>>,
                                    it |-> it]),
                            "none", st.slots \cup {pos})
          [] child.kind = "Compressed" ->
               Res(st.root, <<>>, "explicit", st.slots)

\* EndOfCompressed that hangs the rest of the input below the chain as a new
\* Compressed child instead of extending the chain in place
EndOfCompressed_NewChild(self, st, rest, path, new_part, it) ==
    LET node       == NodeAt(st.root, path)
        compressed == node.compressed
        child      == node.child
    IN  CASE child.kind = "Empty" ->
               Res(ReplaceAt(st.root, path,
                             Compressed(compressed,
                                        new_compressed(<<new_part>> \o it))),
                   rest, "none", st.slots)
          [] child.kind = "Normal" ->
               LET pos == self.index_fn[new_part]
               IN  IF pos >= Len(child.children)
                   THEN Res(st.root, <<>>, "index", st.slots \cup {pos})
                   ELSE Res(st.root,
                            Append(rest,
                                   [node |-> path \o <<BoxChild, pos>>,
                                    it |-> it]),
                            "none", st.slots \cup {pos})
          [] child.kind = "Compressed" ->
               Res(st.root, <<>>, "explicit", st.slots)

\* EndOfCompressed that forgets compressed.push(new_part): the part taken by
\* it.next() is lost and only the rest of the input extends the chain
EndOfCompressed_DropsPart(self, st, rest, path, new_part, it) ==
    LET node       == NodeAt(st.root, path)
        compressed == node.compressed
        child      == node.child
    IN  CASE child.kind = "Empty" ->
               Res(ReplaceAt(st.root, path,
                             Compressed(compressed \o it, child)),
                   rest, "none", st.slots)
          [] child.kind = "Normal" ->
               LET pos == self.index_fn[new_part]
               IN  IF pos >= Len(child.children)
                   THEN Res(st.root, <<>>, "index", st.slots \cup {pos})
                   ELSE Res(st.root,
                            Append(rest,
                                   [node |-> path \o <<BoxChild, pos>>,
                                    it |-> it]),
                            "none", st.slots \cup {pos})
          [] child.kind = "Compressed" ->
               Res(st.root, <<>>, "explicit", st.slots)

\* current_pos == compressed.len(): new_part is the first part past the chain,
\* it the input after new_part
EndOfCompressed(self, st, rest, path, new_part, it) ==
    LET node       == NodeAt(st.root, path)
        compressed == node.compressed
        child      == node.child
    IN  CASE child.kind = "Empty" ->
               Res(ReplaceAt(st.root, path,
                             Compressed(Append(compressed, new_part) \o it,
                                        child)),
                   rest, "none", st.slots)
          [] child.kind = "Normal" ->
               LET pos == self.index_fn[new_part]
               IN  IF pos >= Len(child.children)
                   THEN Res(st.root, <<>>, "index", st.slots \cup {pos})
                   ELSE Res(st.root,
                            Append(rest,
                                   [node |-> path \o <<BoxChild, pos>>,
                                    it |-> it]),
                            "none", st.slots \cup {pos})
          [] child.kind = "Compressed" ->
               Res(st.root, <<>>, "explicit", st.slots)

\* MismatchEmptyChild without the drain.next() that discards the mismatching
\* part: the slot of the existing path keeps compressed[current_pos]
MismatchEmptyChild_KeepsPart(self, st, rest, path, it, current_pos, pos_existing, pos_new) ==
    LET node                == NodeAt(st.root, path)
        compressed          == node.compressed
        new_compressed_node == new_compressed(it)
        drain               == SubSeq(compressed, current_pos + 1,
                                      Len(compressed))
        existing_compressed == new_compressed(drain)
        kept                == SubSeq(compressed, 1, current_pos)
        new_node            == new_normal(
                                   <<<<pos_new, new_compressed_node>>,
                                     <<pos_existing, existing_compressed>>>>,
                                   self.alphabet_size)
    IN  IF new_node.panic
        THEN Res(ReplaceAt(st.root, path, Compressed(kept, node.child)),
                 <<>>, "index", st.slots \cup new_node.slots)
        ELSE Res(ReplaceAt(st.root, path, Compressed(kept, new_node.node)),
                 rest, "none", st.slots \cup new_node.slots)

\* pos_existing != pos_new at current_pos and the child is Empty: the chain is
\* cut at current_pos and a new Normal node with two slots becomes its child
MismatchEmptyChild(self, st, rest, path, it, current_pos, pos_existing, pos_new) ==
    LET node                == NodeAt(st.root, path)
        compressed          == node.compressed
        new_compressed_node == new_compressed(it)
        drain               == SubSeq(compressed, current_pos + 2,
                                      Len(compressed))
        existing_compressed == new_compressed(drain)
        kept                == SubSeq(compressed, 1, current_pos)
        new_node            == new_normal(
                                   <<<<pos_new, new_compressed_node>>,
                                     <<pos_existing, existing_compressed>>>>,
                                   self.alphabet_size)
    IN  IF new_node.panic
        THEN Res(ReplaceAt(st.root, path, Compressed(kept, node.child)),
                 <<>>, "index", st.slots \cup new_node.slots)
        ELSE Res(ReplaceAt(st.root, path, Compressed(kept, new_node.node)),
                 rest, "none", st.slots \cup new_node.slots)

\* pos_existing != pos_new at current_pos and the child is Normal: the chain is
\* cut at current_pos and both the new input and the drained tail of the
\* chain are pushed for slots of the existing child
MismatchNormalChild(self, st, rest, path, it, current_pos, pos_existing, pos_new) ==
    LET node       == NodeAt(st.root, path)
        compressed == node.compressed
        children   == node.child.children
        drain      == SubSeq(compressed, current_pos + 2, Len(compressed))
        kept       == SubSeq(compressed, 1, current_pos)
        min_pos    == IF pos_existing > pos_new THEN pos_new ELSE pos_existing
        max_pos    == IF pos_existing > pos_new THEN pos_existing ELSE pos_new
        left_it    == IF pos_existing > pos_new THEN it ELSE drain
        right_it   == IF pos_existing > pos_new THEN drain ELSE it
        cut        == ReplaceAt(st.root, path, Compressed(kept, node.child))
    IN  \* split_at_mut(max_pos) panics when max_pos > len, left[min_pos]
        \* when min_pos >= max_pos, right[0] when max_pos == len
        IF max_pos > Len(children)
        THEN Res(cut, <<>>, "index", st.slots \cup {max_pos})
        ELSE IF min_pos >= max_pos
        THEN Res(cut, <<>>, "index", st.slots \cup {min_pos})
        ELSE IF max_pos >= Len(children)
        THEN Res(cut, <<>>, "index", st.slots \cup {min_pos, max_pos})
        ELSE Res(cut,
                 rest \o <<[node |-> path \o <<BoxChild, min_pos>>,
                            it |-> left_it],
                           [node |-> path \o <<BoxChild, max_pos>>,
                            it |-> right_it]>>,
                 "none", st.slots \cup {min_pos, max_pos})

\* the loop 'compressed over current_pos
RECURSIVE CompressedLoop(_, _, _, _, _, _)
CompressedLoop(self, st, rest, path, it, current_pos) ==
    LET node       == NodeAt(st.root, path)
        compressed == node.compressed
    IN  IF it # <<>>
        THEN LET new_part == Head(it)
                 it1      == Tail(it)
             IN  IF current_pos = Len(compressed)
                 THEN EndOfCompressed(self, st, rest, path, new_part, it1)
                 ELSE LET existing_part == compressed[current_pos + 1]
                          pos_existing  == self.index_fn[existing_part]
                          pos_new       == self.index_fn[new_part]
                      IN  IF pos_existing # pos_new
                          THEN CASE node.child.kind = "Empty" ->
                                      MismatchEmptyChild(self, st, rest, path,
                                          it1, current_pos,
                                          pos_existing, pos_new)
                                 [] node.child.kind = "Normal" ->
                                      MismatchNormalChild(self, st, rest, path,
                                          it1, current_pos,
                                          pos_existing, pos_new)
                                 [] node.child.kind = "Compressed" ->
                                      Res(st.root, <<>>, "explicit", st.slots)
                          ELSE CompressedLoop(self, st, rest, path, it1,
                                              current_pos + 1)
        ELSE Res(st.root, rest, "none", st.slots)

\* InsertStep reading the top of the stack without popping it: stack.last()
InsertStep_NoPop(self, st) ==
    LET top     == st.stack[Len(st.stack)]
        rest    == st.stack
        current == NodeAt(st.root, top.node)
    IN  CASE current.kind = "Empty" ->
               InsertEmptyArm(st, rest, top.node, top.it)
          [] current.kind = "Normal" ->
               InsertNormalArm(self, st, rest, top.node, top.it)
          [] current.kind = "Compressed" ->
               CompressedLoop(self, st, rest, top.node, top.it, 0)

\* one turn of `while let Some((current, mut it)) = stack.pop()`
InsertStep(self, st) ==
    LET top     == st.stack[Len(st.stack)]
        rest    == SubSeq(st.stack, 1, Len(st.stack) - 1)
        current == NodeAt(st.root, top.node)
    IN  CASE current.kind = "Empty" ->
               InsertEmptyArm(st, rest, top.node, top.it)
          [] current.kind = "Normal" ->
               InsertNormalArm(self, st, rest, top.node, top.it)
          [] current.kind = "Compressed" ->
               CompressedLoop(self, st, rest, top.node, top.it, 0)

RECURSIVE InsertLoop(_, _)
InsertLoop(self, st) ==
    IF st.stack = <<>> \/ st.panic # "none" THEN st
    ELSE InsertLoop(self, InsertStep(self, st))

\* Trie::insert from `let mut stack = ..` on, given t.decompose(): the trie
\* after the call (as unwinding leaves it when the call panics), how it
\* panicked and the slot positions it addressed
insert_decomposed(self, it) ==
    LET done == InsertLoop(self,
                    Res(self.root, <<[node |-> <<>>, it |-> it]>>,
                        "none", {}))
    IN  [self |-> [self EXCEPT !.root = done.root],
         panic |-> done.panic, slots |-> done.slots]

\* Trie::insert of a String
insert(self, t) == insert_decomposed(self, decompose(t))

\* Trie::insert of a u16
insert_u16(self, v) == insert_decomposed(self, decompose_u16(v))

\* ------------------------------------------------------------------------
\* Trie::contains
\* ------------------------------------------------------------------------

\* ContainsEmptyArm with the test inverted: break it.next().is_some()
ContainsEmptyArm_IsSome(it) == it # <<>>

\* Node::Empty => break it.next().is_none()
ContainsEmptyArm(it) == it = <<>>

\* ContainsHeld comparing the parts themselves instead of their index_fn
\* outputs: held_part != &part
RECURSIVE ContainsHeld_RawCompare(_, _, _, _)
ContainsHeld_RawCompare(self, compressed, it, i) ==
    IF i > Len(compressed) THEN TRUE
    ELSE IF i <= Len(it)
         THEN IF compressed[i] # it[i]
              THEN FALSE
              ELSE ContainsHeld_RawCompare(self, compressed, it, i + 1)
         ELSE FALSE

\* ContainsHeld accepting an input that runs out inside the chain: the
\* `else` of `if let Some(part) = it.next()` without its break
RECURSIVE ContainsHeld_PrefixOk(_, _, _, _)
ContainsHeld_PrefixOk(self, compressed, it, i) ==
    IF i > Len(compressed) THEN TRUE
    ELSE IF i <= Len(it)
         THEN IF self.index_fn[compressed[i]] # self.index_fn[it[i]]
              THEN FALSE
              ELSE ContainsHeld_PrefixOk(self, compressed, it, i + 1)
         ELSE TRUE

\* `for held_part in compressed.iter()`: TRUE when every held part is matched
\* by the next input part, FALSE on a mismatch or when the input runs out
RECURSIVE ContainsHeld(_, _, _, _)
ContainsHeld(self, compressed, it, i) ==
    IF i > Len(compressed) THEN TRUE
    ELSE IF i <= Len(it)
         THEN IF self.index_fn[compressed[i]] # self.index_fn[it[i]]
              THEN FALSE
              ELSE ContainsHeld(self, compressed, it, i + 1)
         ELSE FALSE

\* the loop 'parts_loop: [result, panic, slots]
RECURSIVE ContainsLoop(_, _, _, _)
ContainsLoop(self, current, it, slots) ==
    CASE current.kind = "Empty" ->
           [result |-> ContainsEmptyArm(it), panic |-> "none", slots |-> slots]
      [] current.kind = "Normal" ->
           IF it # <<>>
           THEN LET pos == self.index_fn[Head(it)]
                IN  IF pos >= Len(current.children)
                    THEN [result |-> FALSE, panic |-> "index",
                          slots |-> slots \cup {pos}]
                    ELSE ContainsLoop(self, current.children[pos + 1],
                                      Tail(it), slots \cup {pos})
           ELSE [result |-> FALSE, panic |-> "none", slots |-> slots]
      [] current.kind = "Compressed" ->
           IF ContainsHeld(self, current.compressed, it, 1)
           THEN ContainsLoop(self, current.child,
                             SubSeq(it, Len(current.compressed) + 1, Len(it)),
                             slots)
           ELSE [result |-> FALSE, panic |-> "none", slots |-> slots]

\* contains as a lookup that creates the entry it looks for (&mut self)
contains_Inserting(self, t) ==
    LET walk == ContainsLoop(self, self.root, decompose(t), {})
    IN  [self |-> insert(self, t).self, result |-> walk.result,
         panic |-> walk.panic, slots |-> walk.slots]

\* one turn of the loop 'parts_loop, for a walk followed turn by turn:
\* cs = [current, it, done, result, panic, slots]
ContainsStep(self, cs) ==
    LET current == cs.current
        it      == cs.it
    IN  CASE current.kind = "Empty" ->
               [cs EXCEPT !.done = TRUE, !.result = ContainsEmptyArm(it)]
          [] current.kind = "Normal" ->
               IF it # <<>>
               THEN LET pos == self.index_fn[Head(it)]
                    IN  IF pos >= Len(current.children)
                        THEN [cs EXCEPT !.done = TRUE, !.panic = "index",
                                        !.slots = @ \cup {pos}]
                        ELSE [cs EXCEPT !.current = current.children[pos + 1],
                                        !.it = Tail(it),
                                        !.slots = @ \cup {pos}]
               ELSE [cs EXCEPT !.done = TRUE, !.result = FALSE]
          [] current.kind = "Compressed" ->
               IF ContainsHeld(self, current.compressed, it, 1)
               THEN [cs EXCEPT !.current = current.child,
                               !.it = SubSeq(it, Len(current.compressed) + 1,
                                             Len(it))]
               ELSE [cs EXCEPT !.done = TRUE, !.result = FALSE]

\* Trie::contains takes &self: the call returns a bool and the trie it was
\* given
contains(self, t) ==
    LET walk == ContainsLoop(self, self.root, decompose(t), {})
    IN  [self |-> self, result |-> walk.result, panic |-> walk.panic,
         slots |-> walk.slots]

\* ------------------------------------------------------------------------
\* The program: one trie, built by Trie::new with the index function and an
\* alphabet size, then any insert and contains calls on Strings.
\*   self      the Trie (root, index_fn, alphabet_size)
\*   pre       the Trie as it was before the last call
\*   op        the last call: its name, its argument, what it returned and
\*             the slot positions it addressed
\*   panicked  how the last call panicked, "none" when it returned
\*   inserted  the Strings of the insert calls that returned
\*   ninserts  the number of insert calls
\*   twin      a second Trie, built by the same calls with arguments that
\*             differ only in parts of equal index_fn output (used by
\*             SpecCase, left alone by the other specifications)
\*   call      the insert or contains call in progress, when the program is
\*             followed one loop turn at a time (used by SpecSteps)
\* ------------------------------------------------------------------------

VARIABLES self, pre, op, panicked, inserted, ninserts, twin, call

vars == <<self, pre, op, panicked, inserted, ninserts, twin, call>>

\* no call is in progress
Idle == [kind |-> "idle"]

Init ==
    /\ self = new([c \in Chars |-> index_fn(c)], AlphabetSize)
    /\ pre = self
    /\ op = [name |-> "new", arg |-> <<>>, result |-> FALSE, slots |-> {}]
    /\ panicked = "none"
    /\ inserted = {}
    /\ ninserts = 0
    /\ twin = self
    /\ call = Idle

Insert(t) ==
    /\ panicked = "none"
    /\ ninserts < MaxInserts
    /\ LET r == insert(self, t)
       IN  /\ self' = r.self
           /\ panicked' = r.panic
           /\ op' = [name |-> "insert", arg |-> t, result |-> FALSE,
                     slots |-> r.slots]
           /\ inserted' = IF r.panic = "none" THEN inserted \cup {t}
                          ELSE inserted
    /\ pre' = self
    /\ ninserts' = ninserts + 1
    /\ UNCHANGED <<twin, call>>

Contains(t) ==
    /\ panicked = "none"
    /\ LET r == contains(self, t)
       IN  /\ self' = r.self
           /\ panicked' = r.panic
           /\ op' = [name |-> "contains", arg |-> t, result |-> r.result,
                     slots |-> r.slots]
    /\ pre' = self
    /\ UNCHANGED <<inserted, ninserts, twin, call>>

Next ==
    \/ \E t \in Strings : Insert(t)
    \/ \E t \in Strings : Contains(t)

Spec == Init /\ [][Next]_vars

TypeOK ==
    /\ panicked \in {"none", "index", "explicit"}
    /\ ninserts \in 0..MaxInserts
    /\ inserted \subseteq Strings

\* ------------------------------------------------------------------------
\* The program with upper and lower case: two tries are built side by side,
\* each insert giving them Strings that differ at most in the case of their
\* chars (index_fn lower-cases its argument, lib.rs:41).
\* ------------------------------------------------------------------------

\* longest String of SpecCase
MaxLenCase == 2

\* 'A', 'a', 'b': 'A' and 'a' have the same index_fn output
CaseParts == {UpperA, CharA, CharA + 1}

CaseStrings == UNION {[1..n -> CaseParts] : n \in 0..MaxLenCase}

InsertPair(t, u) ==
    /\ panicked = "none"
    /\ ninserts < MaxInserts
    /\ Len(t) = Len(u)
    /\ \A i \in 1..Len(t) : self.index_fn[t[i]] = self.index_fn[u[i]]
    /\ LET r  == insert(self, t)
           r2 == insert(twin, u)
       IN  /\ self' = r.self
           /\ twin' = r2.self
           /\ panicked' = r.panic
           /\ op' = [name |-> "insert", arg |-> t, result |-> FALSE,
                     slots |-> r.slots]
           /\ inserted' = IF r.panic = "none" THEN inserted \cup {t}
                          ELSE inserted
    /\ pre' = self
    /\ ninserts' = ninserts + 1
    /\ UNCHANGED call

NextCase == \E t \in CaseStrings : \E u \in CaseStrings : InsertPair(t, u)

SpecCase == Init /\ [][NextCase]_vars

\* ------------------------------------------------------------------------
\* The program with the two configurations of the documentation and the
\* tests: chars with the lower-case letter position and alphabet size
\* 'z' - 'a' (radix_tree.rs:12-15, lib.rs:40-43), bytes with the identity and
\* alphabet size u8::max_value() (lib.rs:60-63).
\* ------------------------------------------------------------------------

\* 'z' as usize
CharZ == 122

\* u8::max_value() as usize
U8Max == 255

\* longest String of SpecDoc
MaxLenDoc == 1

\* the lower-case letters and the bytes
Letters == CharA .. CharZ
Bytes == 0 .. U8Max

DocStrings == UNION {[1..n -> Letters] : n \in 0..MaxLenDoc}

\* 456 is the u16 of test_trie_simple_numeric; the others have a low byte
\* of 0 or of u8::MAX
DocU16 == {0, 255, 456, 511}

InitDoc ==
    /\ self \in {new([c \in Letters |-> index_fn(c)], CharZ - CharA),
                 new([c \in Bytes |-> byte_index_fn(c)], U8Max)}
    /\ pre = self
    /\ op = [name |-> "new", arg |-> <<>>, result |-> FALSE, slots |-> {}]
    /\ panicked = "none"
    /\ inserted = {}
    /\ ninserts = 0
    /\ twin = self
    /\ call = Idle

InsertString(t) ==
    /\ DOMAIN self.index_fn = Letters
    /\ panicked = "none"
    /\ ninserts < MaxInserts
    /\ LET r == insert(self, t)
       IN  /\ self' = r.self
           /\ panicked' = r.panic
           /\ op' = [name |-> "insert", arg |-> decompose(t),
                     result |-> FALSE, slots |-> r.slots]
           /\ inserted' = IF r.panic = "none"
                          THEN inserted \cup {decompose(t)}
                          ELSE inserted
    /\ pre' = self
    /\ ninserts' = ninserts + 1
    /\ UNCHANGED <<twin, call>>

InsertU16(v) ==
    /\ DOMAIN self.index_fn = Bytes
    /\ panicked = "none"
    /\ ninserts < MaxInserts
    /\ LET r == insert_u16(self, v)
       IN  /\ self' = r.self
           /\ panicked' = r.panic
           /\ op' = [name |-> "insert", arg |-> decompose_u16(v),
                     result |-> FALSE, slots |-> r.slots]
           /\ inserted' = IF r.panic = "none"
                          THEN inserted \cup {decompose_u16(v)}
                          ELSE inserted
    /\ pre' = self
    /\ ninserts' = ninserts + 1
    /\ UNCHANGED <<twin, call>>

NextDoc ==
    \/ \E t \in DocStrings : InsertString(t)
    \/ \E v \in DocU16 : InsertU16(v)

SpecDoc == InitDoc /\ [][NextDoc]_vars

\* ------------------------------------------------------------------------
\* The program followed one loop turn at a time: a call begins, takes the
\* turns of its loop (`while let` of insert, 'parts_loop of contains) and
\* ends.  The code is synchronous and single-threaded: a call in progress
\* always takes its next turn, which is the fairness of SpecSteps.  The
\* history variables op, inserted and twin are left alone.
\* ------------------------------------------------------------------------

BeginInsert(t) ==
    /\ call = Idle
    /\ panicked = "none"
    /\ ninserts < MaxInserts
    /\ call' = [kind |-> "insert", arg |-> t,
                st |-> Res(self.root,
                           <<[node |-> <<>>, it |-> decompose(t)]>>,
                           "none", {})]
    /\ ninserts' = ninserts + 1
    /\ pre' = self
    /\ UNCHANGED <<self, op, panicked, inserted, twin>>

StepInsert ==
    /\ call.kind = "insert"
    /\ call.st.stack # <<>>
    /\ call.st.panic = "none"
    /\ LET next == InsertStep(self, call.st)
       IN  /\ call' = [call EXCEPT !.st = next]
           /\ self' = [self EXCEPT !.root = next.root]
    /\ UNCHANGED <<pre, op, panicked, inserted, ninserts, twin>>

EndInsert ==
    /\ call.kind = "insert"
    /\ call.st.stack = <<>> \/ call.st.panic # "none"
    /\ call' = Idle
    /\ panicked' = call.st.panic
    /\ UNCHANGED <<self, pre, op, inserted, ninserts, twin>>

BeginContains(t) ==
    /\ call = Idle
    /\ panicked = "none"
    /\ call' = [kind |-> "contains", arg |-> t,
                cs |-> [current |-> self.root, it |-> decompose(t),
                        done |-> FALSE, result |-> FALSE,
                        panic |-> "none", slots |-> {}]]
    /\ pre' = self
    /\ UNCHANGED <<self, op, panicked, inserted, ninserts, twin>>

StepContains ==
    /\ call.kind = "contains"
    /\ ~call.cs.done
    /\ call' = [call EXCEPT !.cs = ContainsStep(self, call.cs)]
    /\ UNCHANGED <<self, pre, op, panicked, inserted, ninserts, twin>>

EndContains ==
    /\ call.kind = "contains"
    /\ call.cs.done
    /\ call' = Idle
    /\ panicked' = call.cs.panic
    /\ UNCHANGED <<self, pre, op, inserted, ninserts, twin>>

NextSteps ==
    \/ \E t \in Strings : BeginInsert(t)
    \/ StepInsert
    \/ EndInsert
    \/ \E t \in Strings : BeginContains(t)
    \/ StepContains
    \/ EndContains

SpecSteps ==
    /\ Init
    /\ [][NextSteps]_vars
    /\ WF_vars(StepInsert)
    /\ WF_vars(EndInsert)
    /\ WF_vars(StepContains)
    /\ WF_vars(EndContains)

\* ------------------------------------------------------------------------
\* Vocabulary of the properties
\* ------------------------------------------------------------------------

\* the last call returned (it did not panic)
Returned == panicked = "none"

\* every part of t satisfies the precondition index_fn(part) < alphabet_size
ValidParts(t) ==
    \A i \in 1..Len(t) : self.index_fn[t[i]] < self.alphabet_size

\* p and q have the same length and the same index_fn output at every position
SameIndex(p, q) ==
    /\ Len(p) = Len(q)
    /\ \A i \in 1..Len(p) : self.index_fn[p[i]] = self.index_fn[q[i]]

\* p is a prefix of q, comparing parts by index_fn output
IndexPrefix(p, q) ==
    /\ Len(p) <= Len(q)
    /\ \A i \in 1..Len(p) : self.index_fn[p[i]] = self.index_fn[q[i]]

\* no string of the set is a prefix of another one
PrefixFree(set) ==
    \A p \in set : \A q \in set : p # q => ~IndexPrefix(p, q)

\* p and q agree on a leading run of length k and differ at position k
DivergeAt(p, q, k) ==
    /\ k < Len(p)
    /\ k < Len(q)
    /\ \A i \in 1..k : self.index_fn[p[i]] = self.index_fn[q[i]]
    /\ self.index_fn[p[k + 1]] # self.index_fn[q[k + 1]]

Diverge(p, q) == \E k \in 0..MaxLen : DivergeAt(p, q, k)

\* contains(t) returns true on the trie of the current state
Present(t) ==
    LET r == contains(self, t) IN r.panic = "none" /\ r.result

\* ------------------------------------------------------------------------
\* C1: in every state reached by inserts, contains(P) returns true right
\* after insert(P) returned, for every P whose parts all have an index_fn
\* output below alphabet_size.
\* ------------------------------------------------------------------------
C1_ContainsAfterInsert ==
    (op.name = "insert" /\ Returned /\ ValidParts(op.arg)) => Present(op.arg)

\* ------------------------------------------------------------------------
\* C2: contains(Q) returns true for a non-empty Q only if some inserted
\* sequence has the length of Q and its index_fn output at every position.
\* ------------------------------------------------------------------------
C2_NoFalsePositive ==
    (op.name = "contains" /\ Returned /\ op.arg # <<>> /\ op.result)
        => \E p \in inserted : SameIndex(p, op.arg)

\* ------------------------------------------------------------------------
\* C3: when no inserted sequence is a prefix of another, contains returns
\* true for every sequence inserted so far, after every insert.
\* ------------------------------------------------------------------------
C3_PrefixFreeAllPresent ==
    (Returned /\ PrefixFree(inserted)) => \A p \in inserted : Present(p)

\* ------------------------------------------------------------------------
\* C4: insert is idempotent: a second insert(P) right after insert(P) returns
\* and leaves the trie, node for node, as the first insert left it.
\* ------------------------------------------------------------------------
C4_InsertIdempotent ==
    (op.name = "insert" /\ Returned)
        => LET again == insert(self, op.arg)
           IN  again.panic = "none" /\ again.self = self

\* a second insert of the same string has run after one that changed the tree
C4_Witness ==
    /\ op.name = "insert" /\ Returned
    /\ ninserts >= 2 /\ Cardinality(inserted) < ninserts
    /\ op.arg \in inserted /\ op.arg # <<>>
    /\ pre = self
    /\ self.root.kind = "Compressed" /\ self.root.child.kind = "Normal"

\* ------------------------------------------------------------------------
\* C5: two sequences that agree on a leading run of length k >= 0 and differ
\* at position k, inserted into a fresh trie in either order, are both
\* reported present.
\* ------------------------------------------------------------------------
C5_DivergingPairPresent ==
    (/\ Returned
     /\ ninserts = 2
     /\ Cardinality(inserted) = 2
     /\ \A p \in inserted : \A q \in inserted : p # q => Diverge(p, q))
        => \A p \in inserted : Present(p)

\* two strings sharing a non-empty leading run were inserted, the second one
\* splitting the chain of the first
C5_Witness ==
    /\ Returned /\ op.name = "insert"
    /\ ninserts = 2 /\ Cardinality(inserted) = 2
    /\ \E p \in inserted : \E q \in inserted : DivergeAt(p, q, 1)
    /\ self.root.kind = "Compressed" /\ self.root.child.kind = "Normal"
    /\ \A p \in inserted : Present(p)

\* ------------------------------------------------------------------------
\* C6: on a freshly constructed trie (no insert yet) contains(P) returns
\* false for every non-empty P.
\* ------------------------------------------------------------------------
C6_FreshContainsNothing ==
    (ninserts = 0 /\ op.name = "contains" /\ op.arg # <<>>)
        => (Returned /\ op.result = FALSE)

\* contains has been called with a non-empty string before any insert
C6_Witness ==
    /\ ninserts = 0 /\ op.name = "contains" /\ Len(op.arg) = MaxLen
    /\ self.root = Empty /\ op.result = FALSE

\* ------------------------------------------------------------------------
\* C7: contains is a pure read: whatever it returns, root (every node),
\* index_fn and alphabet_size are after the call what they were before it.
\* ------------------------------------------------------------------------
C7_ContainsIsPureRead ==
    op.name = "contains" => self = pre

\* contains returned true on a trie that holds a branch
C7_Witness ==
    /\ op.name = "contains" /\ Returned /\ op.result
    /\ self.root.kind = "Compressed" /\ self.root.child.kind = "Normal"
    /\ self = pre

\* ------------------------------------------------------------------------
\* C8: whenever insert or contains addresses a slot of a Normal node with an
\* index_fn output >= alphabet_size, the call panics on the index instead of
\* completing.
\* ------------------------------------------------------------------------
C8_OutOfRangeSlotPanics ==
    (\E pos \in op.slots : pos >= self.alphabet_size) => panicked = "index"

\* an insert panicked where it re-routes into the existing Normal child
C8_Witness ==
    /\ op.name = "insert" /\ panicked = "index"
    /\ \E pos \in op.slots : pos >= self.alphabet_size
    /\ pre.root.kind = "Compressed" /\ pre.root.child.kind = "Normal"
    /\ Len(self.root.compressed) < Len(pre.root.compressed)

\* ------------------------------------------------------------------------
\* C9: when insert finds its first mismatch at position k of a Compressed
\* node, then after the insert that node holds exactly parts[0..k) and leads
\* to a Normal node in which the slot of parts[k] heads a path spelling
\* parts[k+1..] that ends in the old child subtree, unchanged, the slot of the
\* new part heads the remaining new input, and no other slot is populated;
\* whether the old child was Empty or a Normal node.
\* ------------------------------------------------------------------------

\* the number of leading positions, from position k on, at which the held
\* parts and the input have the same index_fn output
RECURSIVE MatchedRun(_, _, _)
MatchedRun(compressed, it, k) ==
    IF /\ k < Len(compressed)
       /\ k < Len(it)
       /\ self.index_fn[compressed[k + 1]] = self.index_fn[it[k + 1]]
    THEN MatchedRun(compressed, it, k + 1)
    ELSE k

\* the Compressed node at which the walk of insert with input it first finds
\* a mismatch: its place, the position k and the input left at that node
RECURSIVE FirstMismatch(_, _, _)
FirstMismatch(node, it, path) ==
    CASE node.kind = "Empty" -> [found |-> FALSE]
      [] node.kind = "Normal" ->
           IF it = <<>> \/ self.index_fn[Head(it)] >= Len(node.children)
           THEN [found |-> FALSE]
           ELSE FirstMismatch(node.children[self.index_fn[Head(it)] + 1],
                              Tail(it),
                              Append(path, self.index_fn[Head(it)]))
      [] node.kind = "Compressed" ->
           LET k == MatchedRun(node.compressed, it, 0)
           IN  IF k < Len(node.compressed) /\ k < Len(it)
               THEN [found |-> TRUE, path |-> path, k |-> k, it |-> it]
               ELSE IF k = Len(node.compressed)
               THEN FirstMismatch(node.child,
                                  SubSeq(it, k + 1, Len(it)),
                                  Append(path, BoxChild))
               ELSE [found |-> FALSE]

NoNode == [kind |-> "NoNode"]

\* the node below `node` at the end of the path that spells seq
RECURSIVE Follow(_, _)
Follow(node, seq) ==
    CASE node.kind = "Compressed" ->
           IF /\ Len(node.compressed) <= Len(seq)
              /\ MatchedRun(node.compressed, seq, 0) = Len(node.compressed)
           THEN Follow(node.child,
                       SubSeq(seq, Len(node.compressed) + 1, Len(seq)))
           ELSE NoNode
      [] node.kind = "Normal" ->
           IF seq = <<>> THEN node
           ELSE IF self.index_fn[Head(seq)] >= Len(node.children) THEN NoNode
           ELSE Follow(node.children[self.index_fn[Head(seq)] + 1], Tail(seq))
      [] node.kind = "Empty" ->
           IF seq = <<>> THEN node ELSE NoNode

\* what C9 says of the node `now` that replaces the split node `old`
SplitShape(old, now, k, it) ==
    LET parts        == old.compressed
        pos_existing == self.index_fn[parts[k + 1]]
        pos_new      == self.index_fn[it[k + 1]]
    IN  /\ now.kind = "Compressed"
        /\ now.compressed = SubSeq(parts, 1, k)
        /\ now.child.kind = "Normal"
        /\ Follow(now.child.children[pos_existing + 1],
                  SubSeq(parts, k + 2, Len(parts))) = old.child
        /\ ContainsLoop(self, now.child.children[pos_new + 1],
                        SubSeq(it, k + 2, Len(it)), {}).result
        /\ \A i \in 1..Len(now.child.children) :
               (i - 1) \notin {pos_existing, pos_new}
                   => now.child.children[i] = Empty

C9_SplitKeepsOldChild ==
    (op.name = "insert" /\ Returned)
        => LET m == FirstMismatch(pre.root, decompose(op.arg), <<>>)
           IN  m.found => SplitShape(NodeAt(pre.root, m.path),
                                     NodeAt(self.root, m.path), m.k, m.it)

\* ------------------------------------------------------------------------
\* C10: no Compressed node has a Compressed node as its direct child, and
\* neither panic!() of insert is reached.
\* ------------------------------------------------------------------------
RECURSIVE NoChainUnderChain(_)
NoChainUnderChain(node) ==
    CASE node.kind = "Empty" -> TRUE
      [] node.kind = "Normal" ->
           \A i \in 1..Len(node.children) : NoChainUnderChain(node.children[i])
      [] node.kind = "Compressed" ->
           /\ node.child.kind # "Compressed"
           /\ NoChainUnderChain(node.child)

C10_ChainChildNeverChain ==
    NoChainUnderChain(self.root) /\ panicked # "explicit"

\* a chain was extended in place below a branch below a chain
C10_Witness ==
    /\ op.name = "insert" /\ Returned /\ ninserts = MaxInserts
    /\ self.root.kind = "Compressed" /\ self.root.child.kind = "Normal"
    /\ \E i \in 1..Len(self.root.child.children) :
           /\ self.root.child.children[i].kind = "Compressed"
           /\ Len(self.root.child.children[i].compressed) > 0
           /\ pre.root.child.kind = "Normal"
           /\ Len(pre.root.child.children[i].compressed)
                  < Len(self.root.child.children[i].compressed)

\* ------------------------------------------------------------------------
\* C11: on a fresh trie, after inserting S and S ++ T (T non-empty) in either
\* order, contains(S ++ T) is true and contains(S) is false: the root is one
\* Compressed node holding S ++ T, and inserting S after S ++ T changes
\* nothing.
\* ------------------------------------------------------------------------

\* s is a proper prefix of l, comparing parts by index_fn output
ProperPrefix(s, l) == Len(s) < Len(l) /\ IndexPrefix(s, l)

C11_PrefixPairKeepsLonger ==
    (Returned /\ ninserts = 2 /\ Cardinality(inserted) = 2)
        => \A s \in inserted : \A l \in inserted :
               ProperPrefix(s, l)
                   => /\ Present(l)
                      /\ ~Present(s)
                      /\ self.root = Compressed(l, Empty)
                      /\ (op.name = "insert" /\ op.arg = s) => self = pre

\* a non-empty S was inserted first and S ++ T, two parts longer, second
C11_Witness ==
    /\ Returned /\ ninserts = 2 /\ op.name = "insert"
    /\ \E s \in inserted :
           /\ Len(s) > 0
           /\ Len(op.arg) = Len(s) + 2
           /\ ProperPrefix(s, op.arg)
           /\ pre.root = Compressed(s, Empty)
           /\ self.root = Compressed(op.arg, Empty)
    /\ Present(op.arg)

\* ------------------------------------------------------------------------
\* C12: the trie tells parts apart only by their index_fn output: contains
\* answers alike for two sequences of equal length and equal index_fn output
\* at every position, and two tries built by inserts that differ only in
\* such sequences answer every contains query alike.
\* ------------------------------------------------------------------------
C12_OnlyIndexMatters ==
    /\ \A p \in CaseStrings : \A q \in CaseStrings :
           SameIndex(p, q)
               => contains(self, p).result = contains(self, q).result
    /\ \A q \in CaseStrings :
           contains(self, q).result = contains(twin, q).result

\* the two tries hold different parts below a branch and report a string
\* present that was given to neither in this case
C12_Witness ==
    /\ Returned /\ ninserts >= 2
    /\ self.root # twin.root
    /\ self.root.kind = "Compressed" /\ self.root.child.kind = "Normal"
    /\ \E q \in CaseStrings :
           /\ q \notin inserted
           /\ \E p \in inserted : p # q /\ SameIndex(p, q)
           /\ contains(self, q).result
           /\ contains(twin, q).result

\* ------------------------------------------------------------------------
\* C13: in every state reached by inserts that returned, every Compressed
\* node holds at least one part.
\* ------------------------------------------------------------------------
RECURSIVE ChainsNonEmpty(_)
ChainsNonEmpty(node) ==
    CASE node.kind = "Empty" -> TRUE
      [] node.kind = "Normal" ->
           \A i \in 1..Len(node.children) : ChainsNonEmpty(node.children[i])
      [] node.kind = "Compressed" ->
           /\ Len(node.compressed) >= 1
           /\ ChainsNonEmpty(node.child)

C13_EveryChainHoldsAPart ==
    Returned => ChainsNonEmpty(self.root)

\* ------------------------------------------------------------------------
\* C14: every insert and every contains call terminates: a call in progress
\* leads to the end of the call (the work stack of insert is empty or the
\* call has panicked; the contains walk has reached a break).
\* ------------------------------------------------------------------------
C14_CallsTerminate ==
    (call.kind # "idle") ~> (call.kind = "idle")

\* an insert in progress has just split a chain against a Normal child and
\* holds two entries on its work stack
C14_Witness ==
    /\ call.kind = "insert"
    /\ Len(call.st.stack) = 2
    /\ call.st.panic = "none"

\* a call followed turn by turn ends with the tree and the answer that the
\* call taken as a whole computes
StepsAgreeWithCalls ==
    /\ (call.kind = "insert"
            /\ (call.st.stack = <<>> \/ call.st.panic # "none"))
           => /\ self = insert(pre, call.arg).self
              /\ call.st.panic = insert(pre, call.arg).panic
              /\ call.st.slots = insert(pre, call.arg).slots
    /\ (call.kind = "contains" /\ call.cs.done)
           => /\ call.cs.result = contains(self, call.arg).result
              /\ call.cs.panic = contains(self, call.arg).panic

\* ------------------------------------------------------------------------
\* C15: the configurations of the documented example and of the tests keep
\* the precondition on their whole part domain (index_fn(c) < alphabet_size
\* for every letter a..z, resp. every byte 0..255), hence no insert of
\* lower-case Strings, resp. of integers, fails on an out-of-bounds slot.
\* ------------------------------------------------------------------------
C15_TestConfigsInRange ==
    /\ \A c \in DOMAIN self.index_fn : self.index_fn[c] < self.alphabet_size
    /\ panicked # "index"

\* the conclusion of C15 alone: no insert panics on an index
C15_NoIndexPanic == panicked # "index"

\* ------------------------------------------------------------------------
\* C16: contains(empty sequence) returns true exactly in the states where no
\* non-empty sequence has been inserted yet, which are the states whose root
\* is still Empty, whether or not the empty sequence was inserted; once a
\* non-empty sequence has been inserted it returns false, also after a later
\* insert of the empty sequence.
\* ------------------------------------------------------------------------
C16_EmptyFoundOnlyInEmptyRoot ==
    Returned =>
        /\ (self.root = Empty) <=> (inserted \subseteq {<<>>})
        /\ Present(<<>>) <=> (inserted \subseteq {<<>>})
        /\ (op.name = "contains" /\ op.arg = <<>>) =>
               (op.result <=> (inserted \subseteq {<<>>}))

\* contains("") returned false after a non-empty insert followed by an
\* insert of the empty sequence
C16_Witness ==
    /\ op.name = "contains" /\ op.arg = <<>> /\ Returned
    /\ ~op.result
    /\ <<>> \in inserted
    /\ pre.root # Empty
    /\ \E t \in inserted : t # <<>>

\* ------------------------------------------------------------------------
\* C17: membership does not depend on insertion order: the sequences
\* inserted so far (each once, all within the alphabet), inserted into a
\* fresh trie in any other order, give a trie on which contains(Q) answers
\* as on this one, for every sequence Q.
\* ------------------------------------------------------------------------

\* the orders in which the sequences of a set can be inserted
Orders(set) ==
    {o \in [1..Cardinality(set) -> set] :
        \A i, j \in DOMAIN o : i # j => o[i] # o[j]}

\* the trie after trie.insert(o[1]); ..; trie.insert(o[Len(o)])
RECURSIVE InsertAll(_, _)
InsertAll(trie, o) ==
    IF o = <<>> THEN trie
    ELSE InsertAll(insert(trie, Head(o)).self, Tail(o))

\* what contains(Q) answers on a trie
Answer(trie, Q) ==
    LET r == contains(trie, Q) IN [result |-> r.result, panic |-> r.panic]

C17_OrderDoesNotMatter ==
    (/\ Returned
     /\ ninserts = Cardinality(inserted)
     /\ \A t \in inserted : ValidParts(t))
    => \A o \in Orders(inserted) : \A Q \in Strings :
           Answer(InsertAll(new(self.index_fn, self.alphabet_size), o), Q)
               = Answer(self, Q)

\* ------------------------------------------------------------------------
\* C18: an insert that fails because a part's index_fn output is not below
\* alphabet_size leaves the trie exactly as it was before the call, so that
\* every contains query answers as it did before the failed insert.
\* ------------------------------------------------------------------------
C18_FailedInsertLeavesTrie ==
    (op.name = "insert" /\ panicked = "index") =>
        /\ self = pre
        /\ \A Q \in Strings : Answer(self, Q) = Answer(pre, Q)

====
